---- MODULE Spec2Model ----
(***************************************************************************)
(* State-machine model of the node-backblaze-b2 client (src/index.js).     *)
(*                                                                         *)
(* One session object (`this` of the b2 constructor).  No method guards    *)
(* against another call being in flight.  authorize, the one method that   *)
(* writes the session, may be called and answered at any moment, also      *)
(* while another operation awaits a response.  Every other method only     *)
(* reads the session and works on its own `data` object, so the model      *)
(* follows one such operation from its call to its end (op, pc), with      *)
(* authorize calls and answers interleaved freely; two of them in flight   *)
(* on distinct `data` objects are two such traces side by side.            *)
(*                                                                         *)
(* JavaScript values are modelled as tagged records (field t names the     *)
(* JavaScript type), so that `typeof`, `in` and `===` are computed the way *)
(* the source computes them.  The remote service, the file system and the  *)
(* digest function are the environment: their answers are drawn from small *)
(* sets.                                                                   *)
(***************************************************************************)
EXTENDS Integers, Sequences, FiniteSets, TLC

VARIABLES
  session,     \* the fields of `this`
  authNet,     \* the b2_authorize_account requests in flight
  authResp,    \* the response handed to the authorize request callback that ran last
               \* since the latest call of authorize
  authResult,  \* what that callback reported to authorize's caller
  op,          \* the operation other than authorize that is followed, "idle" when none
  pc,          \* position inside the operation
  args,        \* the object the caller passed (`data`, `input`)
  net,         \* network requests issued by the operation in progress
  resps,       \* the responses delivered to the operation's request callbacks, in order
  result,      \* how the operation ended: callback arguments or an exception
  authOK,      \* history: some authorize call has ended with 200
  job,         \* the `data` object the operation is working on, where it differs
               \* from args: getFileInfo's inner calls, uploadFile's derived
               \* fields, downloadFile's digest
  started,     \* uploadFile: the preparatory tasks async.parallel has invoked
  settled,     \* uploadFile: the preparatory tasks that have called back
  attempt,     \* uploadFile: calls of postFile made by async.retry so far
  postResps,   \* uploadFile: the answers to those calls, in order
  waits,       \* uploadFile: the delays async.retry has scheduled, in order
  sha1Calls,   \* downloadFile: calls of sha1() made
  streamErrored, \* downloadFile: the request object has emitted 'error'
  callbacks    \* downloadFile: invocations of the caller's callback so far

sessVars == <<session, authOK, authNet, authResp, authResult>>
opVars == <<op, pc, args, net, resps, result>>
dlVars == <<sha1Calls, streamErrored, callbacks>>
pipeVars == <<job, started, settled, attempt, postResps, waits, sha1Calls, streamErrored, callbacks>>
vars == <<session, authNet, authResp, authResult, op, pc, args, net, resps, result, authOK,
          job, started, settled, attempt, postResps, waits, sha1Calls, streamErrored, callbacks>>

----------------------------------------------------------------------------
(* JavaScript values *)

undefined == [t |-> "undefined"]
null == [t |-> "null"]
EmptyObject == [t |-> "object", keys |-> {}]
NoNum == -1                \* a numeric field that is undefined

JSString(s) == [t |-> "string", text |-> s]

(* conf.apiUrl, read by the constructor *)
ConfApiUrl == "conf.apiUrl"

----------------------------------------------------------------------------
(* The environment's answers *)

(* Bodies of the service's own non-200 answers: the B2 error object, whose *)
(* status field repeats the HTTP status.                                   *)
ServiceErrorBodies ==
  { [t |-> "object", status |-> 401, code |-> "bad_auth_token", message |-> "service message"],
    [t |-> "object", status |-> 503, code |-> "service_unavailable",
     message |-> "service message"] }

(* Bodies of the non-200 answers of a gateway in front of the service: an  *)
(* object without the B2 error fields, a body that did not parse as JSON,  *)
(* and the JSON value null.                                                *)
GatewayErrorBodies ==
  { [t |-> "object", status |-> NoNum, code |-> "undefined", message |-> "undefined"],
    JSString("<html>503</html>"),
    null }

GatewayStatus == 503

ErrorBodies == ServiceErrorBodies \cup GatewayErrorBodies

(* Bodies of a 200 answer to b2_authorize_account *)
AuthBodies ==
  { [t |-> "object", apiUrl |-> "https://api001", authorizationToken |-> "tok1",
     downloadUrl |-> "https://f001", minimumPartSize |-> 100000000],
    [t |-> "object", apiUrl |-> "https://api001", authorizationToken |-> "tok2",
     downloadUrl |-> "https://f001", minimumPartSize |-> 100000000] }

NoResponse == undefined    \* transport failure: err set, resp undefined

Response(code, body) == [t |-> "response", statusCode |-> code, body |-> body]

(* The HTTP status a non-200 answer with body b comes with *)
StatusOf(b) == IF b \in ServiceErrorBodies THEN b.status ELSE GatewayStatus

ErrorResponses == {NoResponse} \cup { Response(StatusOf(b), b) : b \in ErrorBodies }

(* The answers to b2_authorize_account: no response, a 401 with a B2 error *)
(* object, a 503 whose body is the JSON value null, and the 200 answers.   *)
AuthorizeResponses ==
  { NoResponse,
    Response(401, [t |-> "object", status |-> 401, code |-> "bad_auth_token",
                   message |-> "service message"]),
    Response(GatewayStatus, null) }
  \cup { Response(200, b) : b \in AuthBodies }

----------------------------------------------------------------------------
(* b2Error: the error object built from whatever the caller hands in.      *)
(* Its result is the error's status, code and message, or a TypeError when *)
(* the finally block reads a field of null.                                *)

TypeError == [t |-> "TypeError"]

ApplicationError(message) ==
  [t |-> "b2Error", status |-> 0, code |-> "application_error", message |-> message]

b2Error(data) ==
  IF data.t = "response" /\ data.body.t = "null"
    THEN TypeError                       \* typeof null === "object"; null.status throws
  ELSE IF data.t = "response" /\ data.body.t = "object"
    THEN [t |-> "b2Error", status |-> data.body.status,
          code |-> data.body.code, message |-> data.body.message]
  ELSE IF data.t = "string"
    THEN ApplicationError(data.text)     \* `in` on a primitive throws, caught
  ELSE ApplicationError("Error connecting to B2 service.")

----------------------------------------------------------------------------
(* How an operation ends *)

NoResult == [kind |-> "none"]
Threw(e) == [kind |-> "threw", err |-> e]
Callback(err, data) == [kind |-> "callback", err |-> err, data |-> data]

(* callback(b2Error(x), {}): when b2Error itself throws, the exception     *)
(* leaves the request callback and the operation's callback is not called. *)
CallbackError(x) ==
  IF b2Error(x) = TypeError THEN Threw(TypeError) ELSE Callback(b2Error(x), EmptyObject)

----------------------------------------------------------------------------
(* The session *)

UndefinedRequest == [t |-> "undefined"]

(* Variant: the defaulted request object is built in the constructor *)
NewSessionWithRequest ==
  [ authorized |-> FALSE,
    apiUrl |-> ConfApiUrl,
    authorizationToken |-> "undefined",
    downloadUrl |-> "undefined",
    minimumPartSize |-> NoNum,
    request |-> [t |-> "function", baseUrl |-> <<ConfApiUrl, "/b2api/v1/">>,
                 method |-> "GET", json |-> TRUE, Authorization |-> "undefined"] ]

NewSession ==
  [ authorized |-> FALSE,
    apiUrl |-> ConfApiUrl,
    authorizationToken |-> "undefined",
    downloadUrl |-> "undefined",
    minimumPartSize |-> NoNum,
    request |-> UndefinedRequest ]

RequestDefaults(apiUrl, token) ==
  [t |-> "function", baseUrl |-> <<apiUrl, "/b2api/v1/">>, method |-> "GET",
   json |-> TRUE, Authorization |-> token]

(* The request callback of authorize: the session after it has run *)

authorizeCallback(this, resp) ==
  IF resp.t # "response" \/ resp.statusCode # 200
    THEN this
    ELSE [ authorized |-> TRUE,
           apiUrl |-> resp.body.apiUrl,
           authorizationToken |-> resp.body.authorizationToken,
           downloadUrl |-> resp.body.downloadUrl,
           minimumPartSize |-> resp.body.minimumPartSize,
           request |-> RequestDefaults(resp.body.apiUrl, resp.body.authorizationToken) ]

(* A network request; via names the function that sent it *)
Req(via, method, base, path, authorization, body) ==
  [via |-> via, method |-> method, base |-> base, path |-> path,
   Authorization |-> authorization, body |-> body]

(* this.request.get / this.request.post on the defaulted request object *)
ApiReq(this, method, path, body) ==
  Req("this.request", method, this.request.baseUrl, path, this.request.Authorization, body)

NoJob == [t |-> "undefined"]

(* Before any authorize request callback has run *)
NoAuthResponse == [t |-> "none"]

Init ==
  /\ session = NewSession
  /\ authNet = <<>>
  /\ authResp = NoAuthResponse
  /\ authResult = NoResult
  /\ op = "idle"
  /\ pc = "idle"
  /\ args = undefined
  /\ net = <<>>
  /\ resps = <<>>
  /\ result = NoResult
  /\ authOK = FALSE
  /\ job = NoJob
  /\ started = {}
  /\ settled = {}
  /\ attempt = 0
  /\ postResps = <<>>
  /\ waits = <<>>
  /\ sha1Calls = 0
  /\ streamErrored = FALSE
  /\ callbacks = 0

ResetPipe ==
  /\ job' = NoJob
  /\ started' = {}
  /\ settled' = {}
  /\ attempt' = 0
  /\ postResps' = <<>>
  /\ waits' = <<>>
  /\ sha1Calls' = 0
  /\ streamErrored' = FALSE
  /\ callbacks' = 0

LastResp == resps[Len(resps)]

(* The followed operation has ended, or none was called yet: the next one  *)
(* to be followed starts here.                                             *)
Idle == op = "idle" \/ pc = "done"

(* Start of an operation: the previous operation's trace is dropped *)
Begin(name, data) ==
  /\ Idle
  /\ op' = name
  /\ args' = data
  /\ resps' = <<>>
  /\ ResetPipe

MaxAuthInFlight == 1       \* authorize requests in flight at one time

(* authorize(callback): accepted in every state, sends its request at once *)
authorize ==
  /\ Len(authNet) < MaxAuthInFlight
  /\ authNet' = Append(authNet, Req("request", "GET", session.apiUrl,
                                     "/b2_authorize_account", "basic", undefined))
  /\ authResp' = NoAuthResponse
  /\ authResult' = NoResult
  /\ UNCHANGED <<session, authOK, opVars, pipeVars>>

(* s without its i-th element *)
Remove(s, i) == [j \in 1..(Len(s) - 1) |-> IF j < i THEN s[j] ELSE s[j + 1]]

(* The request callback of one authorize call in flight *)
authorizeResponse ==
  /\ \E i \in 1..Len(authNet), resp \in AuthorizeResponses :
       /\ authNet' = Remove(authNet, i)
       /\ authResp' = resp
       /\ session' = authorizeCallback(session, resp)
       /\ authOK' = (authOK \/ (resp.t = "response" /\ resp.statusCode = 200))
       /\ authResult' = IF resp.t # "response" \/ resp.statusCode # 200
                          THEN (IF b2Error(resp) = TypeError
                                  THEN NoResult      \* try/finally { return } swallows it
                                  ELSE Callback(b2Error(resp), EmptyObject))
                          ELSE Callback(null, resp.body)
  /\ UNCHANGED <<opVars, pipeVars>>

----------------------------------------------------------------------------
(* Resource operations: one request, one response *)

Buckets ==
  { [t |-> "object", bucketName |-> "photos", bucketId |-> "b1", bucketType |-> "allPublic"],
    [t |-> "object", bucketName |-> "docs", bucketId |-> "b2", bucketType |-> "allPrivate"] }

(* Bucket names are unique within an account *)
BucketLists ==
  {<<>>} \cup { <<b>> : b \in Buckets }
         \cup { <<b, c>> : <<b, c>> \in { x \in Buckets \X Buckets : x[1] # x[2] } }

ListBucketsBodies == { [t |-> "object", buckets |-> l] : l \in BucketLists }

MaxPage == 2
FileNames == {"a.txt", "a.txt.bak"}
Files ==
  { [t |-> "object", fileName |-> "a.txt", fileId |-> "f1"],
    [t |-> "object", fileName |-> "a.txt", fileId |-> "f2"],
    [t |-> "object", fileName |-> "a.txt.bak", fileId |-> "f3"] }
Pages == UNION { [1..n -> Files] : n \in 0..MaxPage }
FileVersionsBodies ==
  { [t |-> "object", files |-> p, nextFileName |-> c[1], nextFileId |-> c[2]] :
      p \in Pages, c \in { <<"null", "null">>, <<"b.txt", "f9">> } }

(* The pages that answer getFileInfo's lookup of one file name *)
LookupBodies == { b \in FileVersionsBodies : b.nextFileName = "null" }

OkBody(name) == [t |-> "object", of |-> name]

(* if(err || resp.statusCode !== 200) *)
Failed(resp) == resp.t # "response" \/ resp.statusCode # 200

(* The common request callback: error or the body as it came *)
PassThrough(resp) ==
  IF Failed(resp) THEN CallbackError(resp) ELSE Callback(null, resp.body)

(* Variant: the comparison with the filter is dropped *)
FindBucketUnfiltered(buckets, filter, ret) ==
  IF buckets = <<>> THEN ret ELSE buckets[Len(buckets)]

(* body.buckets.map(...): every match assigns ret, so the last one stays *)
RECURSIVE FindBucket(_, _, _)
FindBucket(buckets, filter, ret) ==
  IF buckets = <<>> THEN ret
  ELSE FindBucket(Tail(buckets), filter,
                  IF Head(buckets).bucketName = filter THEN Head(buckets) ELSE ret)

listBucketsCallback(filter, resp) ==
  IF Failed(resp) THEN CallbackError(resp)
  ELSE IF filter = "false" THEN Callback(null, resp.body)
  ELSE Callback(null, FindBucket(resp.body.buckets, filter, undefined))

(* formData.startFileName, undefined when the caller gave none *)
StartFileName(data) ==
  IF "startFileName" \in DOMAIN data THEN data.startFileName ELSE "undefined"

(* let strict = "strict" in data?data.strict:false *)
Strict(data) == IF "strict" \in DOMAIN data THEN data.strict ELSE FALSE

(* Variant: a prefix comparison instead of === *)
KeepPrefixMatch(file, startFileName) ==
  \/ file.fileName = startFileName
  \/ startFileName = "a.txt" /\ file.fileName = "a.txt.bak"

(* body.files.map(...): push the file when file.fileName === startFileName *)
KeepExactMatch(file, startFileName) == file.fileName = startFileName

RECURSIVE StrictFiles(_, _, _)
StrictFiles(files, startFileName, ret) ==
  IF files = <<>> THEN ret
  ELSE StrictFiles(Tail(files), startFileName,
                   IF KeepExactMatch(Head(files), startFileName)
                     THEN Append(ret, Head(files)) ELSE ret)

listFileVersionsCallback(data, resp) ==
  IF Failed(resp) THEN CallbackError(resp)
  ELSE IF ~Strict(data) THEN Callback(null, resp.body)
  ELSE Callback(null, [ t |-> "object",
                        files |-> StrictFiles(resp.body.files, StartFileName(data), <<>>),
                        nextFileId |-> resp.body.nextFileId,
                        nextFileName |-> resp.body.nextFileName ])

(* A request through this.request: a TypeError when this.request is        *)
(* undefined, the request on the wire otherwise.                           *)
Send(sent, method, path, body, position) ==
  IF session.request = UndefinedRequest
    THEN /\ net' = sent
         /\ pc' = "done"
         /\ result' = Threw(TypeError)
    ELSE /\ net' = Append(sent, ApiReq(session, method, path, body))
         /\ pc' = position
         /\ result' = NoResult

(* The operation ends before any request: callback(b2Error("..."), {}) *)
Reject(message) ==
  /\ net' = <<>>
  /\ pc' = "done"
  /\ result' = Callback(b2Error(JSString(message)), EmptyObject)

Finish(r) ==
  /\ result' = r
  /\ pc' = "done"
  /\ UNCHANGED <<op, args, net, sessVars, pipeVars>>

Responses(okBodies) == ErrorResponses \cup { Response(200, b) : b \in okBodies }

Awaiting(name, position) == op = name /\ pc = position

listBuckets ==
  \E filter \in {"false", "photos", "docs", "missing"} :
    /\ Begin("listBuckets", [t |-> "arguments", filter |-> filter])
    /\ Send(<<>>, "GET", "/b2_list_buckets?accountId=", undefined, "wait")
    /\ UNCHANGED sessVars

listBucketsResponse ==
  /\ Awaiting("listBuckets", "wait")
  /\ \E resp \in Responses(ListBucketsBodies) :
       /\ resps' = Append(resps, resp)
       /\ Finish(listBucketsCallback(args.filter, resp))

CreateBucketInputs ==
  { [bucketName |-> "photos"], [bucketName |-> "photos", bucketType |-> "allPublic"] }

createBucket ==
  \E data \in CreateBucketInputs :
    /\ Begin("createBucket", data)
    /\ Send(<<>>, "POST", "/b2_create_bucket",
            [bucketName |-> data.bucketName,
             bucketType |-> IF "bucketType" \in DOMAIN data THEN data.bucketType
                            ELSE "allPrivate"], "wait")
    /\ UNCHANGED sessVars

createBucketResponse ==
  /\ Awaiting("createBucket", "wait")
  /\ \E resp \in Responses({OkBody("createBucket")}) :
       /\ resps' = Append(resps, resp)
       /\ Finish(PassThrough(resp))

ListFileNamesInputs ==
  { [bucketId |-> "b1"], [bucketId |-> "b1", startFileName |-> "a.txt"] }

listFileNames ==
  \E data \in ListFileNamesInputs :
    /\ Begin("listFileNames", data)
    /\ Send(<<>>, "POST", "/b2_list_file_names", data, "wait")
    /\ UNCHANGED sessVars

listFileNamesResponse ==
  /\ Awaiting("listFileNames", "wait")
  /\ \E resp \in Responses({OkBody("listFileNames")}) :
       /\ resps' = Append(resps, resp)
       /\ Finish(PassThrough(resp))

ListFileVersionsInputs ==
  { [bucketId |-> "b1"] }
  \cup [bucketId : {"b1"}, strict : BOOLEAN]
  \cup [bucketId : {"b1"}, startFileName : FileNames]
  \cup [bucketId : {"b1"}, startFileName : FileNames, strict : BOOLEAN]

(* formData of listFileVersions: bucketId and the optional fields present *)
VersionsForm(data) ==
  [ k \in DOMAIN data \cap {"bucketId", "startFileName", "startFileId", "maxFileCount"}
      |-> data[k] ]

listFileVersions ==
  \E data \in ListFileVersionsInputs :
    /\ Begin("listFileVersions", data)
    /\ Send(<<>>, "POST", "/b2_list_file_versions", VersionsForm(data), "wait")
    /\ UNCHANGED sessVars

listFileVersionsResponse ==
  /\ Awaiting("listFileVersions", "wait")
  /\ \E resp \in Responses(FileVersionsBodies) :
       /\ resps' = Append(resps, resp)
       /\ Finish(listFileVersionsCallback(args, resp))

DeleteFileInputs ==
  { [fileName |-> "a.txt", fileId |-> "f1"], [fileName |-> "a.txt"], [fileId |-> "f1"] }

deleteFile ==
  \E data \in DeleteFileInputs :
    /\ Begin("deleteFile", data)
    /\ IF "fileName" \notin DOMAIN data \/ "fileId" \notin DOMAIN data
         THEN Reject("Missing required input. { fileName or fileId }")
         ELSE Send(<<>>, "POST", "/b2_delete_file_version", data, "wait")
    /\ UNCHANGED sessVars

deleteFileResponse ==
  /\ Awaiting("deleteFile", "wait")
  /\ \E resp \in Responses({OkBody("deleteFile")}) :
       /\ resps' = Append(resps, resp)
       /\ Finish(IF Failed(resp) /\ b2Error(resp) = TypeError
                   THEN NoResult      \* try/finally { return } swallows it
                   ELSE PassThrough(resp))

UploadUrlBodies ==
  { [t |-> "object", uploadUrl |-> "https://pod/upload", authorizationToken |-> "uptok"] }

getUploadUrl ==
  /\ Begin("getUploadUrl", [bucketId |-> "b1"])
  /\ Send(<<>>, "POST", "/b2_get_upload_url", [bucketId |-> "b1"], "wait")
  /\ UNCHANGED sessVars

getUploadUrlResponse ==
  /\ Awaiting("getUploadUrl", "wait")
  /\ \E resp \in Responses(UploadUrlBodies) :
       /\ resps' = Append(resps, resp)
       /\ Finish(PassThrough(resp))

AuthTokenInputs ==
  { [bucketId |-> "b1", fileNamePrefix |-> "/path", duration |-> 60],
    [bucketId |-> "b1", fileNamePrefix |-> "/path"] }

getAuthToken ==
  \E data \in AuthTokenInputs :
    /\ Begin("getAuthToken", data)
    /\ IF \/ "bucketId" \notin DOMAIN data
          \/ "fileNamePrefix" \notin DOMAIN data
          \/ "duration" \notin DOMAIN data
         THEN Reject("Missing required data. { bucketId, fileNamePrefix, duration }")
         ELSE Send(<<>>, "POST", "/b2_get_download_authorization",
                      [bucketId |-> data.bucketId, fileNamePrefix |-> data.fileNamePrefix,
                       validDurationInSeconds |-> data.duration], "wait")
    /\ UNCHANGED sessVars

getAuthTokenResponse ==
  /\ Awaiting("getAuthToken", "wait")
  /\ \E resp \in Responses({[t |-> "object", authorizationToken |-> "dltok"]}) :
       /\ resps' = Append(resps, resp)
       /\ Finish(IF Failed(resp) THEN CallbackError(resp)
                 ELSE Callback(null, JSString(resp.body.authorizationToken)))

----------------------------------------------------------------------------
(* getFileInfo: up to three requests, each started from the callback of    *)
(* the one before.  pc names the request whose answer is awaited.          *)

GetFileInfoInputs ==
  { [fileId |-> "f1"] }
  \cup [fileName : {"a.txt"}, bucketId : {"b1"}]
  \cup [fileName : {"a.txt"}, bucketName : {"photos", "missing"}]

(* The body of getFileInfo(data, callback) up to its first request *)
GetFileInfo(data, sent) ==
  IF "fileName" \in DOMAIN data /\ "bucketName" \in DOMAIN data
    THEN /\ job' = data
         /\ Send(sent, "GET", "/b2_list_buckets?accountId=", undefined, "listBuckets")
  ELSE IF "fileName" \in DOMAIN data /\ "bucketId" \in DOMAIN data
    THEN LET lookup == [fileName |-> data.fileName, bucketId |-> data.bucketId,
                        startFileName |-> data.fileName, strict |-> TRUE]
         IN /\ job' = lookup
            /\ Send(sent, "POST", "/b2_list_file_versions", VersionsForm(lookup),
                    "listFileVersions")
  ELSE /\ job' = data
       /\ Send(sent, "POST", "/b2_get_file_info", data, "getFileInfo")

getFileInfo ==
  \E data \in GetFileInfoInputs :
    /\ Idle
    /\ op' = "getFileInfo"
    /\ args' = data
    /\ resps' = <<>>
    /\ started' = {} /\ settled' = {} /\ attempt' = 0 /\ postResps' = <<>> /\ waits' = <<>>
    /\ sha1Calls' = 0 /\ streamErrored' = FALSE /\ callbacks' = 0
    /\ GetFileInfo(data, <<>>)
    /\ UNCHANGED sessVars

getFileInfoBucketResponse ==
  /\ Awaiting("getFileInfo", "listBuckets")
  /\ \E resp \in Responses(ListBucketsBodies) :
       LET r == listBucketsCallback(job.bucketName, resp) IN
       /\ resps' = Append(resps, resp)
       /\ IF r.kind # "callback" \/ r.err # null
            THEN /\ result' = r /\ pc' = "done" /\ UNCHANGED <<job, net>>
          ELSE IF r.data = undefined
            THEN \* res.bucketId on undefined: the request callback throws
                 /\ result' = Threw(TypeError) /\ pc' = "done" /\ UNCHANGED <<job, net>>
          ELSE GetFileInfo([fileName |-> job.fileName, bucketId |-> r.data.bucketId], net)
  /\ UNCHANGED <<op, args, sessVars, started, settled, attempt, postResps, waits, dlVars>>

getFileInfoVersionsResponse ==
  /\ Awaiting("getFileInfo", "listFileVersions")
  /\ \E resp \in Responses(LookupBodies) :
       LET r == listFileVersionsCallback(job, resp) IN
       /\ resps' = Append(resps, resp)
       /\ IF r.kind # "callback" \/ r.err # null
            THEN /\ result' = r /\ pc' = "done" /\ UNCHANGED <<job, net>>
          ELSE IF Len(r.data.files) < 1
            THEN /\ result' = Callback(b2Error(JSString("Unable to locate file.")),
                                       EmptyObject)
                 /\ pc' = "done" /\ UNCHANGED <<job, net>>
          ELSE GetFileInfo([fileId |-> r.data.files[1].fileId], net)
  /\ UNCHANGED <<op, args, sessVars, started, settled, attempt, postResps, waits, dlVars>>

getFileInfoResponse ==
  /\ Awaiting("getFileInfo", "getFileInfo")
  /\ \E resp \in Responses({OkBody("getFileInfo")}) :
       /\ resps' = Append(resps, resp)
       /\ Finish(PassThrough(resp))

----------------------------------------------------------------------------
(* uploadFile: three preparatory tasks under async.parallel, then postFile *)
(* under async.retry.                                                      *)

MaxRetry == 2              \* largest attempt count a caller asks for

UploadBase == [bucketId |-> "b1", file |-> "/path/to/file", fileName |-> "remote.jpg"]

WithKey(data, k, v) == [x \in DOMAIN data \cup {k} |-> IF x = k THEN v ELSE data[x]]

(* The caller's object: the documented option is retryAttempts, the option *)
(* the code looks for is retry.                                            *)
UploadInputs ==
  {UploadBase, WithKey(UploadBase, "contentType", "image/jpeg")}
  \cup { WithKey(UploadBase, "retryAttempts", n) : n \in {1, MaxRetry} }
  \cup { WithKey(UploadBase, "retry", n) : n \in {1, MaxRetry} }

DefaultRetryAttempts == 3

(* ("retry" in data) && (new Number).isInteger(data.retry): a Number object *)
(* has no isInteger method, so the call is a TypeError whenever the left   *)
(* operand is true.                                                        *)
RetryOptionThrows(data) == "retry" \in DOMAIN data

retryAttempts(data) == DefaultRetryAttempts

Tasks == {"getUploadUrl", "sha1", "stat"}

NewJob ==
  [ t |-> "upload", endpoint |-> undefined, sha1 |-> "undefined", stat |-> undefined,
    readStream |-> undefined, streamReads |-> 0 ]

(* interval: function(retryCount) { return 50 * Math.pow(2, retryCount); } *)
RECURSIVE Pow2(_)
Pow2(n) == IF n = 0 THEN 1 ELSE 2 * Pow2(n - 1)

interval(retryCount) == 50 * Pow2(retryCount)

(* The argument async.retry hands to interval after `failed` failed        *)
(* attempts.  The async package is a dependency that is not part of the    *)
(* sources: its 3.x releases pass the number of failed attempts, its 2.x   *)
(* releases pass one more.  One installation answers the same way every    *)
(* time: after the first wait the later ones follow it.                    *)
RetryCountArgs(failed, earlier) ==
  IF earlier = <<>> THEN {failed, failed + 1}
  ELSE IF earlier[1] = interval(1) THEN {failed}
  ELSE {failed + 1}

(* options.url: data.endpoint.uploadUrl *)
UploadUrl(j) ==
  IF "uploadUrl" \in DOMAIN j.endpoint THEN j.endpoint.uploadUrl ELSE "undefined"

UploadToken(j) ==
  IF "authorizationToken" \in DOMAIN j.endpoint
    THEN j.endpoint.authorizationToken ELSE "undefined"

UploadOptions(j, data) ==
  [ body |-> j.readStream,
    readBefore |-> j.streamReads,
    ContentType |-> IF "contentType" \in DOMAIN data THEN data.contentType ELSE "b2/x-auto",
    ContentLength |-> j.stat.size,
    XBzFileName |-> data.fileName,
    XBzContentSha1 |-> j.sha1 ]

(* The JSON text of a B2 error answer, and the object it parses to *)
UploadErrorText ==
  "{\"status\":503,\"code\":\"service_unavailable\",\"message\":\"busy\"}"

UploadErrorObject ==
  [t |-> "object", status |-> 503, code |-> "service_unavailable", message |-> "busy"]

(* The JSON text of the 200 answer to an upload, and the object it parses  *)
(* to.                                                                     *)
UploadOkText == "{\"fileId\":\"f1\"}"

UploadOkObject == [t |-> "object", fileId |-> "f1"]

(* The upload endpoint is called without json: true: bodies stay strings *)
UploadResponses ==
  {NoResponse}
  \cup { Response(UploadErrorObject.status, JSString(UploadErrorText)),
         Response(200, JSString(UploadOkText)) }

(* JSON.parse(body): the object a JSON text stands for.  The texts are the *)
(* ones the upload endpoint answers with; a 200 answer carries JSON.       *)
JSONparse(body) ==
  CASE body.text = UploadOkText -> UploadOkObject
    [] body.text = UploadErrorText -> UploadErrorObject

(* The request callback inside postFile, :314-320, and what async.retry   *)
(* does with its report: after the n-th call of postFile and `heard`, the  *)
(* answers so far, the answer resp arrives.                                *)
PostAnswer(resp, n, heard) ==
  /\ resps' = Append(heard, resp)
  /\ postResps' = Append(postResps, resp)
  /\ IF Failed(resp)
       THEN IF n < retryAttempts(args)
              THEN /\ \E rc \in RetryCountArgs(n, waits) :
                        waits' = Append(waits, interval(rc))
                   /\ pc' = "backoff"
                   /\ result' = result
              ELSE /\ result' = CallbackError(resp)
                   /\ pc' = "done"
                   /\ waits' = waits
       ELSE /\ result' = Callback(null, JSONparse(resp.body))
            /\ pc' = "done"
            /\ waits' = waits

(* postFile: request.post(options, ...).  Without a url the request module *)
(* sends nothing and calls back with an error before it returns: the       *)
(* failure branch and async.retry's reaction run in the same step.  With a *)
(* url the request is handed to the request module, whatever state the     *)
(* stream in options.body is in.                                           *)
PostFile(j, data, sent, n, heard) ==
  /\ attempt' = n
  /\ IF UploadUrl(j) = "undefined"
       THEN /\ net' = sent
            /\ job' = j
            /\ PostAnswer(NoResponse, n, heard)
       ELSE /\ net' = Append(sent, Req("request", "POST", UploadUrl(j), "",
                                       UploadToken(j), UploadOptions(j, data)))
            /\ job' = [j EXCEPT !.streamReads = @ + 1]
            /\ pc' = "post"
            /\ result' = result
            /\ resps' = heard
            /\ UNCHANGED <<postResps, waits>>

(* The callback of async.parallel, run by the task that settles last *)
ParallelCallback(j, data, sent, heard) ==
  IF j.stat = undefined
    THEN \* data.stat.size on undefined: uncaught TypeError
         /\ result' = Threw(TypeError) /\ pc' = "done" /\ net' = sent
         /\ job' = j /\ resps' = heard
         /\ UNCHANGED <<attempt, postResps, waits>>
    ELSE PostFile(j, data, sent, 1, heard)

(* Variant: the continuation runs with the first task that calls back *)
SettleFirst(task, j, sent, heard) ==
  /\ settled' = settled \cup {task}
  /\ ParallelCallback(j, args, sent, heard)
  /\ UNCHANGED <<op, args, sessVars, started, dlVars>>

(* A preparatory task calls back: callback(null, true), whatever happened *)
Settle(task, j, sent, heard) ==
  /\ settled' = settled \cup {task}
  /\ IF settled \cup {task} = Tasks
       THEN ParallelCallback(j, args, sent, heard)
       ELSE /\ job' = j /\ net' = sent /\ resps' = heard
            /\ UNCHANGED <<pc, result, attempt, postResps, waits>>
  /\ UNCHANGED <<op, args, sessVars, started, dlVars>>

(* async.parallel([task 1, task 2, task 3], ...) invokes the tasks one     *)
(* after the other before it returns; none of them waits for a callback.   *)
(* Task 1 throws where this.request is undefined, and the exception leaves *)
(* async.parallel before tasks 2 and 3 are invoked.                        *)
ParallelStarts ==
  IF session.request = UndefinedRequest THEN {"getUploadUrl"} ELSE Tasks

uploadFile ==
  \E data \in UploadInputs :
    /\ Idle
    /\ op' = "uploadFile"
    /\ args' = data
    /\ resps' = <<>>
    /\ settled' = {} /\ attempt' = 0 /\ postResps' = <<>> /\ waits' = <<>>
    /\ sha1Calls' = 0 /\ streamErrored' = FALSE /\ callbacks' = 0
    /\ IF RetryOptionThrows(data)
         THEN /\ job' = NoJob /\ net' = <<>> /\ pc' = "done"
              /\ result' = Threw(TypeError)
              /\ started' = {}
         ELSE /\ job' = IF session.request = UndefinedRequest THEN NoJob ELSE NewJob
              /\ started' = ParallelStarts
              /\ Send(<<>>, "POST", "/b2_get_upload_url", [bucketId |-> data.bucketId],
                      "prepare")
    /\ UNCHANGED sessVars

(* Task 1: the callback of self.getUploadUrl *)
(* The answers to the task's b2_get_upload_url request.  The task drops    *)
(* the error it is handed and leaves data.endpoint as {} on every failure, *)
(* so one failure of each kind is drawn: no response, a B2 error object,   *)
(* and the null body on which b2Error throws.                              *)
EndpointResponses ==
  { NoResponse,
    Response(401, [t |-> "object", status |-> 401, code |-> "bad_auth_token",
                   message |-> "service message"]),
    Response(GatewayStatus, null) }
  \cup { Response(200, b) : b \in UploadUrlBodies }

(* When b2Error throws inside getUploadUrl's request callback the task's   *)
(* callback is never called: an uncaught exception, after which the other  *)
(* tasks still call back where the host survives it.                       *)
uploadEndpointSettles ==
  /\ Awaiting("uploadFile", "prepare") /\ "getUploadUrl" \notin settled /\ resps = <<>>
  /\ \E resp \in EndpointResponses :
       IF PassThrough(resp).kind = "threw"
         THEN /\ resps' = Append(resps, resp)
              /\ result' = PassThrough(resp)
              /\ \E next \in {pc, "done"} : pc' = next
              /\ UNCHANGED <<op, args, net, sessVars, job, started, settled, attempt,
                             postResps, waits, dlVars>>
         ELSE Settle("getUploadUrl", [job EXCEPT !.endpoint = PassThrough(resp).data], net,
                     Append(resps, resp))

(* Task 2: the callback of sha1(data.file, ...) *)
Digests == {"D1", "D2"}

uploadSha1Settles ==
  /\ Awaiting("uploadFile", "prepare") /\ "sha1" \notin settled
  /\ \E sum \in {"D1", "undefined"} :
       Settle("sha1", [job EXCEPT !.sha1 = sum], net, resps)

ENOENT == [t |-> "Error", code |-> "ENOENT"]

(* fs.createReadStream(data.file): the call returns a stream whatever the  *)
(* path is; a stream that cannot open or read its file emits 'error'       *)
(* later.  error is that event's argument, null when there will be none.   *)
createReadStream(path, error) ==
  [t |-> "ReadStream", path |-> path, error |-> error,
   state |-> IF error = null THEN "open" ELSE "failing"]

(* What the stream will do, whatever fs.stat answered: the stream opens    *)
(* the path on its own, after the call, and the file can have appeared or  *)
(* gone in between.                                                        *)
ReadStreamErrors == {null, ENOENT}

(* Task 3: the callback of fs.stat(data.file, ...) *)
uploadStatSettles ==
  /\ Awaiting("uploadFile", "prepare") /\ "stat" \notin settled
  /\ \E stat \in {[t |-> "object", size |-> 10], undefined} :
       \E error \in ReadStreamErrors :
         Settle("stat", [job EXCEPT !.stat = stat,
                                    !.readStream = createReadStream(args.file, error)],
                net, resps)

(* The read stream emits 'error'.  Nothing listens: an uncaught exception, *)
(* whether the other tasks have settled or not, after the continuation has *)
(* thrown, and while a POST that pipes the stream is under way.  The host  *)
(* ends with it, or survives it (an uncaughtException handler): then the   *)
(* tasks still to call back and the continuation run as they would have.   *)
uploadStreamError ==
  /\ op = "uploadFile" /\ job.t = "upload"
  /\ job.readStream.t = "ReadStream" /\ job.readStream.state = "failing"
  /\ job' = [job EXCEPT !.readStream.state = "destroyed"]
  /\ result' = Threw(job.readStream.error)
  /\ \E next \in {pc, "done"} : pc' = next
  /\ UNCHANGED <<op, args, net, resps, sessVars, started, settled, attempt, postResps, waits, dlVars>>

(* The request callback inside postFile.  A POST whose body stream has     *)
(* emitted 'error' never gets its body: its callback is not called.        *)
uploadPostResponse ==
  /\ Awaiting("uploadFile", "post") /\ job.readStream.state # "destroyed"
  /\ \E resp \in UploadResponses : PostAnswer(resp, attempt, resps)
  /\ UNCHANGED <<op, args, net, sessVars, job, started, settled, attempt, dlVars>>

(* The timer set by async.retry fires: postFile again, same options *)
uploadRetry ==
  /\ Awaiting("uploadFile", "backoff")
  /\ PostFile(job, args, net, attempt + 1, resps)
  /\ UNCHANGED <<op, args, sessVars, started, settled, dlVars>>

----------------------------------------------------------------------------
(* getFileStream and downloadFile *)

(* this.downloadUrl.substring(8) is a TypeError while downloadUrl is       *)
(* undefined; otherwise https.get sends the request.                       *)
GetFileStream(data, position) ==
  IF session.downloadUrl = "undefined"
    THEN /\ net' = <<>> /\ pc' = "done" /\ result' = Threw(TypeError)
    ELSE /\ net' = << Req("https.get", "GET", session.downloadUrl,
                          <<"/file/", data.bucketName, "/", data.fileName>>,
                          session.authorizationToken, undefined) >>
         /\ pc' = position
         /\ result' = NoResult

IncomingMessages ==
  { [t |-> "IncomingMessage", statusCode |-> 200, sha1Header |-> d] : d \in Digests }

getFileStream ==
  /\ Begin("getFileStream", [bucketName |-> "photos", fileName |-> "a.txt"])
  /\ GetFileStream([bucketName |-> "photos", fileName |-> "a.txt"], "connect")
  /\ UNCHANGED sessVars

getFileStreamResponse ==
  /\ Awaiting("getFileStream", "connect")
  /\ \E resp \in IncomingMessages :
       /\ resps' = Append(resps, resp)
       /\ Finish(Callback(resp, undefined))   \* callback(resp): one argument

DownloadBase == [bucketName |-> "photos", fileName |-> "a.txt", file |-> "/tmp/a.txt"]

DownloadInputs ==
  { DownloadBase, [bucketName |-> "photos", fileName |-> "a.txt"] }
  \cup { WithKey(DownloadBase, "verify", v) : v \in BOOLEAN }

downloadFile ==
  \E data \in DownloadInputs :
    /\ Idle
    /\ op' = "downloadFile"
    /\ args' = data
    /\ resps' = <<>>
    /\ job' = NoJob /\ started' = {} /\ settled' = {} /\ attempt' = 0 /\ postResps' = <<>> /\ waits' = <<>>
    /\ sha1Calls' = 0 /\ streamErrored' = FALSE
    /\ IF \/ "bucketName" \notin DOMAIN data
          \/ "fileName" \notin DOMAIN data
          \/ "file" \notin DOMAIN data
         THEN /\ Reject("Missing required data. { bucketName, fileName, file }")
              /\ callbacks' = 1
         ELSE /\ GetFileStream(data, "connect")
              /\ callbacks' = 0
    /\ UNCHANGED sessVars

(* stream.on("error"): callback(b2Error(stream), {}).  The listener stays   *)
(* on the request object for good: the event reaches it before the         *)
(* response, while the response is piped, while the digest is computed and *)
(* after the caller has been called back.  A request emits 'error' once.   *)
(* Whether a response that is being piped still emits 'end' afterwards     *)
(* depends on the Node release; a digest that is being computed still      *)
(* calls back.                                                             *)
downloadError ==
  /\ op = "downloadFile" /\ net # <<>> /\ ~streamErrored
  /\ streamErrored' = TRUE
  /\ result' = CallbackError([t |-> "ClientRequest"])
  /\ callbacks' = callbacks + 1
  /\ \E next \in IF pc = "pipe" THEN {"pipe", "done"}
                  ELSE IF pc = "digest" THEN {"digest"} ELSE {"done"} :
       pc' = next
  /\ UNCHANGED <<op, args, net, resps, sessVars, job, started, settled, attempt, postResps, waits,
                 sha1Calls>>

(* fs.createWriteStream(data.file, { flags: "w+" }): a stream that cannot  *)
(* open its file emits 'error' later.                                      *)
createWriteStream(path, error) ==
  [t |-> "WriteStream", path |-> path, error |-> error,
   state |-> IF error = null THEN "open" ELSE "failing"]

(* The `data` of a download once the response has arrived *)
NewDownload(path, error) ==
  [t |-> "download", writeStream |-> createWriteStream(path, error),
   err |-> undefined, sum |-> "undefined"]

(* The response arrives and is piped to the write stream *)
downloadResponse ==
  /\ Awaiting("downloadFile", "connect")
  /\ \E resp \in IncomingMessages : resps' = Append(resps, resp)
  /\ \E error \in {null, ENOENT} : job' = NewDownload(args.file, error)
  /\ pc' = "pipe"
  /\ UNCHANGED <<op, args, net, result, sessVars, started, settled, attempt, postResps, waits,
                 dlVars>>

(* The write stream emits 'error'.  Nothing listens: an uncaught           *)
(* exception.  The process ends there, or a handler of the host catches it *)
(* and the response and the digest go on to call back.                     *)
downloadWriteError ==
  /\ op = "downloadFile" /\ job.t = "download"
  /\ job.writeStream.state = "failing"
  /\ job' = [job EXCEPT !.writeStream.state = "destroyed"]
  /\ result' = Threw(job.writeStream.error)
  /\ \E next \in {pc, "done"} : pc' = next
  /\ UNCHANGED <<op, args, net, resps, sessVars, started, settled, attempt, postResps, waits,
                 dlVars>>

(* Variant: the presence of the key decides *)
WantsVerifyIfPresent(data) == "verify" \in DOMAIN data

(* if(("verify" in data) && data.verify === true) *)
WantsVerify(data) == "verify" \in DOMAIN data /\ data.verify = TRUE

(* resp.on("end") *)
downloadEnd ==
  /\ Awaiting("downloadFile", "pipe")
  /\ IF WantsVerify(args)
       THEN /\ sha1Calls' = sha1Calls + 1
            /\ pc' = "digest"
            /\ UNCHANGED <<result, callbacks>>
       ELSE /\ sha1Calls' = sha1Calls
            /\ pc' = "done"
            /\ result' = Callback(null, LastResp)
            /\ callbacks' = callbacks + 1
  /\ UNCHANGED <<op, args, net, resps, sessVars, job, started, settled, attempt, postResps, waits,
                 streamErrored>>

FsError == [t |-> "Error", code |-> "EACCES"]

(* The callback of sha1(data.file, ...) after the download *)
VerifyCallback(err, sum, resp) ==
  IF err # null THEN Callback(err, resp)
  ELSE IF sum # resp.sha1Header
    THEN Callback(b2Error(JSString("SHA1 sum mismatch.")), resp)
  ELSE Callback(null, resp)

downloadDigest ==
  /\ Awaiting("downloadFile", "digest")
  /\ \E r \in {<<FsError, "undefined">>} \cup { <<null, d>> : d \in Digests } :
       /\ job' = [job EXCEPT !.err = r[1], !.sum = r[2]]
       /\ result' = VerifyCallback(r[1], r[2], LastResp)
  /\ callbacks' = callbacks + 1
  /\ pc' = "done"
  /\ UNCHANGED <<op, args, net, resps, sessVars, started, settled, attempt, postResps, waits,
                 sha1Calls, streamErrored>>

Next ==
  \/ authorize
  \/ authorizeResponse
  \/ listBuckets
  \/ listBucketsResponse
  \/ createBucket
  \/ createBucketResponse
  \/ listFileNames
  \/ listFileNamesResponse
  \/ listFileVersions
  \/ listFileVersionsResponse
  \/ deleteFile
  \/ deleteFileResponse
  \/ getUploadUrl
  \/ getUploadUrlResponse
  \/ getAuthToken
  \/ getAuthTokenResponse
  \/ getFileInfo
  \/ getFileInfoBucketResponse
  \/ getFileInfoVersionsResponse
  \/ getFileInfoResponse
  \/ uploadFile
  \/ uploadEndpointSettles
  \/ uploadSha1Settles
  \/ uploadStatSettles
  \/ uploadStreamError
  \/ uploadPostResponse
  \/ uploadRetry
  \/ getFileStream
  \/ getFileStreamResponse
  \/ downloadFile
  \/ downloadError
  \/ downloadResponse
  \/ downloadWriteError
  \/ downloadEnd
  \/ downloadDigest

Spec == Init /\ [][Next]_vars
----------------------------------------------------------------------------
(* Properties *)

Done(name) == op = name /\ pc = "done"

Reported == result.kind = "callback" /\ result.err # null
Succeeded == result.kind = "callback" /\ result.err = null

IsPost(r) == r.via = "request" /\ r.method = "POST"
UploadPosts == { i \in 1..Len(net) : IsPost(net[i]) }

(* The attempt count the caller asked for, under either spelling of the    *)
(* option, 3 when none was given.                                          *)
RequestedAttempts ==
  IF "retry" \in DOMAIN args THEN args.retry
  ELSE IF "retryAttempts" \in DOMAIN args THEN args.retryAttempts
  ELSE 3

EndpointFailed == "getUploadUrl" \in settled /\ job.endpoint = EmptyObject
DigestFailed == "sha1" \in settled /\ job.sha1 = "undefined"
StatFailed ==
  "stat" \in settled /\ (job.stat = undefined \/ job.readStream.state # "open")
PrepFailed == job # NoJob /\ (EndpointFailed \/ DigestFailed \/ StatFailed)

(* C1: uploadFile honours the caller-supplied maximum attempt count M      *)
(* (default 3): when the preparatory steps succeed, the call ends with a   *)
(* report to the caller; a success comes after at most M POSTs, and a      *)
(* failure after exactly M POSTs.                                          *)
C1_RetryLimitHonoured ==
  (Done("uploadFile") /\ session.authorized /\ ~PrepFailed) =>
     /\ result.kind = "callback"
     /\ Succeeded => Cardinality(UploadPosts) <= RequestedAttempts
     /\ Reported => Cardinality(UploadPosts) = RequestedAttempts

(* C2: if a preparatory step of uploadFile has failed, no upload POST is   *)
(* issued, with or without a digest, and the call ends by reporting an     *)
(* error to the caller.                                                    *)
C2_PrepFailureStopsUpload ==
  (op = "uploadFile" /\ PrepFailed) =>
     /\ UploadPosts = {}
     /\ pc = "done" => Reported

(* C3: while authorized is false, an operation other than authorize has    *)
(* issued no network request.                                              *)
OtherOps ==
  { "listBuckets", "createBucket", "listFileNames", "listFileVersions", "getFileInfo",
    "deleteFile", "getUploadUrl", "getAuthToken", "uploadFile", "getFileStream",
    "downloadFile" }

C3_NoRequestBeforeAuthorize ==
  (~session.authorized /\ op \in OtherOps) => net = <<>>

C3_Witness ==
  /\ authResult # NoResult /\ Failed(authResp) /\ ~session.authorized
  /\ op = "uploadFile" /\ pc = "done" /\ result = Threw(TypeError)
  /\ "retry" \notin DOMAIN args

(* C4: authorize is all-or-nothing.  A call that ends with a transport     *)
(* failure or a non-200 response reports an error and leaves the session   *)
(* as it was; a call that ends with 200 sets every field from the body,    *)
(* with authorized = true; authorized holds exactly when some authorize    *)
(* has succeeded, and then the token, the URLs and the request object are  *)
(* set.                                                                    *)
AuthorizeEnds == Len(authNet') < Len(authNet)

AuthorizeStep ==
  AuthorizeEnds =>
    LET resp == authResp' IN
    IF resp.t # "response" \/ resp.statusCode # 200
      THEN /\ session' = session
           /\ authResult'.kind = "callback" /\ authResult'.err # null
      ELSE /\ session'.authorized
           /\ session'.apiUrl = resp.body.apiUrl
           /\ session'.authorizationToken = resp.body.authorizationToken
           /\ session'.downloadUrl = resp.body.downloadUrl
           /\ session'.minimumPartSize = resp.body.minimumPartSize
           /\ session'.request.baseUrl = <<resp.body.apiUrl, "/b2api/v1/">>
           /\ session'.request.Authorization = resp.body.authorizationToken
           /\ authResult'.kind = "callback" /\ authResult'.err = null

AuthorizedState ==
  /\ session.authorized = authOK
  /\ session.authorized =>
       /\ session.authorizationToken # "undefined"
       /\ session.downloadUrl # "undefined"
       /\ session.apiUrl # ConfApiUrl
       /\ session.request # UndefinedRequest
  /\ ~session.authorized => session = NewSession

C4_AuthorizeAllOrNothing == [](AuthorizedState) /\ [][AuthorizeStep]_vars

ResourceOps ==
  { "listBuckets", "createBucket", "listFileNames", "listFileVersions", "getFileInfo",
    "deleteFile", "getUploadUrl", "getAuthToken" }

ResourceOpFailed == op \in ResourceOps /\ pc = "done" /\ resps # <<>> /\ Failed(LastResp)

(* C5: a non-200 response to a resource operation yields an      *)
(* error whose status is the response's HTTP status code, whatever the     *)
(* body; no response yields status 0 and code application_error.           *)
C5_StatusIsHttpStatus ==
  ResourceOpFailed =>
     /\ Reported
     /\ IF LastResp.t = "response"
          THEN result.err.status = LastResp.statusCode
          ELSE result.err.status = 0 /\ result.err.code = "application_error"

(* C6: listFileVersions with strict = true returns exactly the entries of  *)
(* the page whose fileName equals the requested startFileName, in page     *)
(* order, with both cursors as they came; otherwise the body unmodified.   *)
MatchingIndexes(files, name) == { i \in 1..Len(files) : files[i].fileName = name }

NthOf(idx, j) == CHOOSE i \in idx : Cardinality({ m \in idx : m <= i }) = j

C6_StrictFilter ==
  (Done("listFileVersions") /\ resps # <<>> /\ ~Failed(LastResp)) =>
     /\ Succeeded
     /\ IF "strict" \in DOMAIN args /\ args.strict = TRUE
          THEN LET page == LastResp.body.files
                   idx == MatchingIndexes(page, StartFileName(args))
                   ret == result.data.files
               IN /\ Len(ret) = Cardinality(idx)
                  /\ \A j \in 1..Len(ret) : ret[j] = page[NthOf(idx, j)]
                  /\ result.data.nextFileName = LastResp.body.nextFileName
                  /\ result.data.nextFileId = LastResp.body.nextFileId
          ELSE result.data = LastResp.body

C6_Witness ==
  /\ Done("listFileVersions") /\ resps # <<>> /\ ~Failed(LastResp)
  /\ "strict" \in DOMAIN args /\ args.strict = TRUE
  /\ "startFileName" \in DOMAIN args /\ args.startFileName = "a.txt"
  /\ Len(LastResp.body.files) = 2
  /\ LastResp.body.files[1].fileName = "a.txt.bak"
  /\ LastResp.body.files[2].fileName = "a.txt"
  /\ Len(result.data.files) = 1
  /\ LastResp.body.nextFileName = "b.txt"

(* C7: a successful getFileInfo by fileName and bucketName has issued      *)
(* exactly three requests: b2_list_buckets, then b2_list_file_versions for *)
(* the id of the bucket of that name starting at fileName, then            *)
(* b2_get_file_info for the fileId of the first entry named fileName; the  *)
(* callback receives the third body.  By fileName and bucketId it has      *)
(* issued the last two, by fileId the last one.                            *)
(* The versions lookup is for the id of a listed bucket with that name *)
LooksUpBucketNamed(r, buckets, name, fileName) ==
  \E i \in 1..Len(buckets) :
    /\ buckets[i].bucketName = name
    /\ r.via = "this.request" /\ r.method = "POST" /\ r.path = "/b2_list_file_versions"
    /\ r.body.bucketId = buckets[i].bucketId /\ r.body.startFileName = fileName

IsVersionsLookup(r, bucketId, fileName) ==
  /\ r.via = "this.request" /\ r.method = "POST" /\ r.path = "/b2_list_file_versions"
  /\ r.body.bucketId = bucketId /\ r.body.startFileName = fileName

IsInfoFetch(r, fileId) ==
  /\ r.via = "this.request" /\ r.method = "POST" /\ r.path = "/b2_get_file_info"
  /\ r.body = [fileId |-> fileId]

(* The info fetch is for the fileId of the first listed entry of that name *)
FetchesFirstNamed(r, files, name) ==
  \E i \in MatchingIndexes(files, name) :
    /\ \A m \in MatchingIndexes(files, name) : i <= m
    /\ IsInfoFetch(r, files[i].fileId)

C7_GetFileInfoRequests ==
  (Done("getFileInfo") /\ Succeeded) =>
     /\ result.data = LastResp.body
     /\ Len(resps) = Len(net)
     /\ IF "fileName" \in DOMAIN args /\ "bucketName" \in DOMAIN args
          THEN /\ Len(net) = 3
               /\ net[1].method = "GET" /\ net[1].path = "/b2_list_buckets?accountId="
               /\ LooksUpBucketNamed(net[2], resps[1].body.buckets, args.bucketName,
                                     args.fileName)
               /\ FetchesFirstNamed(net[3], resps[2].body.files, args.fileName)
        ELSE IF "fileName" \in DOMAIN args /\ "bucketId" \in DOMAIN args
          THEN /\ Len(net) = 2
               /\ IsVersionsLookup(net[1], args.bucketId, args.fileName)
               /\ FetchesFirstNamed(net[2], resps[1].body.files, args.fileName)
        ELSE /\ Len(net) = 1
             /\ IsInfoFetch(net[1], args.fileId)

C7_Witness ==
  /\ Done("getFileInfo") /\ Succeeded
  /\ "bucketName" \in DOMAIN args
  /\ Len(net) = 3
  /\ Len(resps[1].body.buckets) = 2
  /\ resps[1].body.buckets[2].bucketName = "docs"
  /\ resps[2].body.files[1].fileName = "a.txt.bak"
  /\ net[3].body.fileId = "f2"

(* C8: when a resolution step of getFileInfo fails or finds no match, the  *)
(* call ends by reporting an error through the callback, and none of the   *)
(* remaining requests is issued.                                           *)
ResolutionStepFailed ==
  /\ Done("getFileInfo") /\ resps # <<>>
  /\ net[Len(resps)].path \in {"/b2_list_buckets?accountId=", "/b2_list_file_versions"}
  /\ \/ Failed(LastResp)
     \/ /\ net[Len(resps)].path = "/b2_list_buckets?accountId="
        /\ \A i \in 1..Len(LastResp.body.buckets) :
              LastResp.body.buckets[i].bucketName # args.bucketName
     \/ /\ net[Len(resps)].path = "/b2_list_file_versions"
        /\ MatchingIndexes(LastResp.body.files, args.fileName) = {}

C8_ResolutionFailureReported ==
  ResolutionStepFailed => (Reported /\ Len(net) = Len(resps))

(* C9: downloadFile with verify = true, once the response has ended and    *)
(* the digest of the local file is computed, reports an integrity error    *)
(* when it differs from the x-bz-content-sha1 header and success when it   *)
(* is equal; without verify = true it reports success and computes no      *)
(* digest.  Stated on the steps that end the response and the digest: the  *)
(* request's 'error' listener may call back as well, before or after them. *)
DownloadEnds ==
  /\ op = "downloadFile" /\ pc = "pipe" /\ pc' # "pipe"
  /\ streamErrored' = streamErrored /\ job' = job

DigestEnds ==
  /\ op = "downloadFile" /\ pc = "digest" /\ pc' = "done"
  /\ job'.writeStream = job.writeStream

DownloadStep ==
  /\ DownloadEnds =>
       IF "verify" \in DOMAIN args /\ args.verify = TRUE
         THEN /\ sha1Calls' = sha1Calls + 1
              /\ callbacks' = callbacks
         ELSE /\ sha1Calls' = sha1Calls
              /\ callbacks' = callbacks + 1
              /\ result'.kind = "callback" /\ result'.err = null
  /\ DigestEnds =>
       /\ "verify" \in DOMAIN args /\ args.verify = TRUE
       /\ callbacks' = callbacks + 1
       /\ job'.err = null =>
            IF job'.sum # LastResp.sha1Header
              THEN /\ result'.kind = "callback" /\ result'.err # null
                   /\ result'.err.message = "SHA1 sum mismatch."
                   /\ result'.err.status = 0
              ELSE result'.kind = "callback" /\ result'.err = null

NoDigestUnlessVerify ==
  (op = "downloadFile" /\ sha1Calls > 0) => ("verify" \in DOMAIN args /\ args.verify = TRUE)

C9_DownloadVerify == [](NoDigestUnlessVerify) /\ [][DownloadStep]_vars

C9_Witness ==
  /\ Done("downloadFile") /\ resps # <<>>
  /\ "verify" \in DOMAIN args /\ args.verify = TRUE
  /\ job.t = "download" /\ job.writeStream.state = "open"
  /\ job.err = null /\ job.sum = "D2" /\ LastResp.sha1Header = "D1"
  /\ Reported /\ result.err.message = "SHA1 sum mismatch."
  /\ callbacks = 1

(* C11: an operation other than authorize called on a session that is not  *)
(* authorized ends by reporting a failure through its callback: it neither *)
(* throws nor ends without calling back.                                   *)
C11_PreconditionReported ==
  (~session.authorized /\ op \in OtherOps /\ pc = "done") => Reported

(* C12: while uploadFile prepares, all three preparatory tasks have been   *)
(* started, however many of them have called back, and no POST has been    *)
(* made; postFile is first called only when all three have called back,    *)
(* failed or not, in whatever order they did.                              *)
PostFileCalled == attempt > 0 \/ UploadPosts # {}

C12_PreparationBarrier ==
  /\ Awaiting("uploadFile", "prepare") => (started = Tasks /\ ~PostFileCalled)
  /\ op = "uploadFile" => settled \subseteq started
  /\ (op = "uploadFile" /\ PostFileCalled) => settled = Tasks

C12_Witness ==
  /\ op = "uploadFile" /\ pc = "post" /\ attempt = 1
  /\ UploadPosts # {}
  /\ started = Tasks /\ settled = Tasks
  /\ DigestFailed /\ ~EndpointFailed /\ ~StatFailed

(* C13: no upload attempt after the first is sent with a read stream that  *)
(* an earlier attempt has already been piped from: every POST of one       *)
(* uploadFile call has a stream that was not read before.                  *)
C13_FreshStreamPerAttempt ==
  op = "uploadFile" => \A i \in UploadPosts : net[i].body.readBefore = 0

(* C14: when every upload attempt has failed, the callback gets the error  *)
(* of the final attempt only, and when the final answer is a non-200       *)
(* response with a JSON error body the error carries the status, code and  *)
(* message the service sent in it.                                         *)
AllAttemptsFailed ==
  /\ Done("uploadFile") /\ postResps # <<>>
  /\ job.readStream.state = "open"
  /\ \A i \in 1..Len(postResps) : Failed(postResps[i])

FinalAnswer == postResps[Len(postResps)]

C14_FinalErrorSurfaced ==
  AllAttemptsFailed =>
     /\ Reported
     /\ (FinalAnswer.t = "response" /\ FinalAnswer.body = JSString(UploadErrorText)) =>
          /\ result.err.status = UploadErrorObject.status
          /\ result.err.code = UploadErrorObject.code
          /\ result.err.message = UploadErrorObject.message
     /\ FinalAnswer.t # "response" =>
          /\ result.err.status = 0
          /\ result.err.code = "application_error"
====
